---- MODULE Spec2Model ----
(***************************************************************************)
(* File/directory driver of the TypeScript AST crawler                     *)
(* (src/crawler/ast_ts.ts).  The source holds two copies of the driver:    *)
(*   "perFile" - lines 1..420: asynchronous, one parser context per file,  *)
(*               files parsed in chunks of CONCURRENCY_LIMIT;              *)
(*   "shared"  - lines 421..843: one parser context (Project) shared by    *)
(*               all files of a directory, synchronous single-file parse.  *)
(* Both are modelled; the variable `variant` says which copy is running.   *)
(***************************************************************************)
EXTENDS Integers, Sequences, FiniteSets, TLC

VARIABLES
    variant,      \* which copy of the driver runs
    entry,        \* the exported function that was called
    rootForm,     \* form of the path argument: absolute or relative
    dirKind,      \* what the directory argument is on disk
    n,            \* number of eligible files below the directory
    kind,         \* what each file is on disk / what the parser does with it
    pc,           \* position of the called function
    files,        \* `files`: the enumerated files, in enumeration order
    i,            \* loop index `i` (perFile) / loop position (shared)
    task,         \* position of each per-file task of the current call
    val,          \* value a resolved parseTypeScriptFile promise carries
    results,      \* `results`: the mapping under construction
    writeCount,   \* number of assignments made to each key of `results`
    chunks,       \* `chunks`: size of each promise array pushed so far
    project,      \* source files held by the shared Project, in order
    parserCalls,  \* files for which the parser capability was invoked
    ret,          \* value the call returned
    caller,       \* who made the call: another module, or main (command line)
    argc,         \* number of command-line arguments after the script name
    target,       \* what the path argument is on disk
    stdout,       \* what console.log printed
    stderr,       \* what console.error printed
    exitCode,     \* exit status of the process
    epc,          \* directory enumeration: position of parseDirectory
    fsRoot,       \* what the root path is on disk: a directory, or missing
    fsEntries,    \* the entries below the root: parent, type and name of each
    fsUnreadable, \* the directory whose readdir fails (0 the root, -1 none)
    estack,       \* the active traverse() calls, innermost last
    efiles,       \* `files` of findFilesRecursively
    readdirCalls, \* directories readdir was called on, in call order
    eparsed,      \* files handed to the per-file pipeline
    elog,         \* console.error lines of the enumeration
    eret,         \* what parseDirectory returned
    tpc,          \* tree walk: position of createNodeFromSourceFile
    tsrc,         \* the syntax tree of the source file, as the parser gives it
    heap,         \* the ASTNode objects created by the current call
    tstack,       \* running processNode / processNodeChildren activations
    tlog,         \* processNode calls and attachments, in the order they happen
    run,          \* which call of parseTypeScriptFile on the file this is
    out1          \* the objects of the tree the first call returned

\* state of the driver (parseDirectory, parseTypeScriptFile)
driverVars == <<variant, entry, rootForm, dirKind, n, kind, pc, files, i, task,
                val, results, writeCount, chunks, project, parserCalls, ret>>

driverRest == <<variant, entry, rootForm, dirKind, n, kind, files, i, task,
                       val, results, writeCount, chunks, project, parserCalls, ret>>

\* state of main
mainVars == <<caller, argc, target, stdout, stderr, exitCode>>

\* state of the detailed directory enumeration
enumVars == <<epc, fsRoot, fsEntries, fsUnreadable, estack, efiles, readdirCalls,
              eparsed, elog, eret>>

\* state of the detailed tree walk
treeVars == <<tpc, tsrc, heap, tstack, tlog, run, out1>>

vars == <<driverVars, mainVars, enumVars, treeVars>>

\* ---------------------------------------------------------------- bounds
MaxFiles == 3
MaxEntries == 3
MaxNodes == 3
MaxWaveFiles == 12

\* ------------------------------------------------------ program constants
CONCURRENCY_LIMIT == 5

\* ------------------------------------------------------------ environment
Variants == {"perFile", "shared"}
Entries == {"parseDirectory", "parseTypeScriptFile"}
RootForms == {"abs", "rel"}
DirKinds == {"ok", "invalid", "readFails"}
\* missing: no such path;  unreadable: exists, cannot be read;
\* parserThrows: addSourceFileAtPath raises;  treeThrows: building the
\* simplified tree raises;  good: parses and normalizes.
Kinds == {"missing", "unreadable", "parserThrows", "treeThrows", "good"}

FileIds == 1..(IF MaxFiles > MaxWaveFiles THEN MaxFiles ELSE MaxWaveFiles)

NoValue == [none |-> TRUE]

Min(a, b) == IF a < b THEN a ELSE b

\* the failure the environment raises for a file of kind k
FailureOf(k) ==
    CASE k = "missing"      -> "ENOENT"
      [] k = "unreadable"   -> "EACCES"
      [] k = "parserThrows" -> "parser failure"
      [] k = "treeThrows"   -> "tree construction failure"
      [] OTHER              -> "none"

\* ------------------------------------------------------------------ paths
\* the directory argument itself
DirPath == [root |-> rootForm, file |-> 0]

\* path.join(currentPath, entry.name): keeps the form of the root
FilePath(f) == [root |-> rootForm, file |-> f]

\* sourceFile.getFilePath(): the standardized absolute path
getFilePath(f) == [root |-> "abs", file |-> f]

\* ------------------------------------------------------------ pure pieces
\* createNodeFromSourceFile: the root node of file f.  File f is taken to
\* have f lines, so that the trees of different files differ.
createNodeFromSourceFile(f) ==
    [nodeType  |-> "SourceFile",
     name      |-> f,
     startLine |-> 1,
     endLine   |-> f,
     children  |-> <<>>]

\* mutation of Exists: the existence check is skipped
ExistsUnchecked(f) == TRUE

\* fs.promises.access(filePath) / fs.existsSync(filePath): existence only
Exists(f) == kind[f] # "missing"

\* project.addSourceFileAtPath(filePath) raises
AddThrows(f) == kind[f] \in {"missing", "unreadable", "parserThrows"}

\* createNodeFromSourceFile(sourceFile) raises
TreeThrows(f) == kind[f] = "treeThrows"

\* mutation of parseTypeScriptFile: the catch clause hands back the partly
\* built root with the error attached to it
parseTypeScriptFileLeaky(f) ==
    IF ~Exists(f)
      THEN [error |-> [msg |-> "File not found", path |-> FilePath(f)]]
      ELSE IF AddThrows(f)
        THEN [error |-> [msg  |-> "Failed to parse",
                         path |-> FilePath(f),
                         desc |-> FailureOf(kind[f])]]
        ELSE IF TreeThrows(f)
          THEN [nodeType  |-> "SourceFile",
                name      |-> f,
                startLine |-> 1,
                endLine   |-> f,
                children  |-> <<>>,
                error     |-> [msg  |-> "Failed to parse",
                               path |-> FilePath(f),
                               desc |-> FailureOf(kind[f])]]
          ELSE createNodeFromSourceFile(f)

\* the body of parseTypeScriptFile: existence check, parser, tree, catch
parseTypeScriptFile(f) ==
    IF ~Exists(f)
      THEN [error |-> [msg |-> "File not found", path |-> FilePath(f)]]
      ELSE IF AddThrows(f) \/ TreeThrows(f)
        THEN [error |-> [msg  |-> "Failed to parse",
                         path |-> FilePath(f),
                         desc |-> FailureOf(kind[f])]]
        ELSE createNodeFromSourceFile(f)

\* results[key] = value
Put(m, k, v) == [x \in (DOMAIN m) \cup {k} |-> IF x = k THEN v ELSE m[x]]

\* one more assignment to key k
Bump(c, k) ==
    [x \in (DOMAIN c) \cup {k} |->
        IF x = k THEN (IF k \in DOMAIN c THEN c[k] + 1 ELSE 1) ELSE c[x]]

EmptyMap == [x \in {} |-> NoValue]

\* files whose pipeline has started and has not resolved yet
InFlight == {f \in DOMAIN task : task[f] \in {"access", "parsed", "added"}}

\* values a call can hand back: a path-keyed mapping, or one object that is
\* a node or an error envelope
Pending == [shape |-> "none"]
Mapping(m) == [shape |-> "mapping", value |-> m]
Single(v) == [shape |-> "value", value |-> v]

\* mutation of chunk: slice(i) - the end index is forgotten
chunkUnbounded(fs, k) == {fs[x] : x \in (k + 1)..Len(fs)}

\* mutation of chunk: slice(i, i + CONCURRENCY_LIMIT - 1) - off by one
chunkShort(fs, k) == {fs[x] : x \in (k + 1)..Min(k + CONCURRENCY_LIMIT - 1, Len(fs))}

\* files.slice(i, i + CONCURRENCY_LIMIT), as the set of its members
chunk(fs, k) == {fs[x] : x \in (k + 1)..Min(k + CONCURRENCY_LIMIT, Len(fs))}

\* ------------------------------------------------------------------- Init
\* file kinds of a directory of cnt files where all files are good but at
\* most one (file `bad`; 0 for none), which is of kind k
OneFaulty(cnt) ==
    {[f \in 1..cnt |-> IF f = bad THEN k ELSE "good"] :
        <<bad, k>> \in (0..cnt) \X (Kinds \ {"good"})}

\* no tree walk is running
TreeOff ==
    /\ tpc = "off" /\ tsrc = <<>> /\ heap = <<>> /\ tstack = <<>>
    /\ tlog = <<>> /\ run = 0 /\ out1 = <<>>

\* the detailed enumeration is not running
EnumOff ==
    /\ epc = "off"
    /\ fsRoot = "dir"
    /\ fsEntries = <<>>
    /\ fsUnreadable = -1
    /\ estack = <<>>
    /\ efiles = <<>>
    /\ readdirCalls = <<>>
    /\ eparsed = {}
    /\ elog = <<>>
    /\ eret = Pending

\* environment of a call made by another module
ModuleEnv ==
    /\ entry \in Entries
    /\ \/ /\ entry = "parseTypeScriptFile"
          /\ dirKind = "ok"
          /\ n = 1
          /\ kind \in [1..1 -> Kinds]
          /\ target = IF kind[1] = "missing" THEN "missing" ELSE "file"
       \/ /\ entry = "parseDirectory"
          /\ dirKind = "invalid"
          /\ n = 0
          /\ kind = [f \in 1..0 |-> "good"]
          /\ target = "missing"
       \/ /\ entry = "parseDirectory"
          /\ dirKind \in {"ok", "readFails"}
          /\ n \in 0..MaxFiles
          /\ kind \in [1..n -> Kinds]
          /\ target = "dir"
       \/ /\ entry = "parseDirectory"
          /\ dirKind = "ok"
          /\ n \in 0..MaxWaveFiles
          /\ kind \in OneFaulty(n)
          /\ rootForm = "abs"
          /\ target = "dir"

\* environment of a command-line run: `entry` is the function main calls
\* for the argument (the per-file copy always calls parseDirectory)
MainEnv ==
    \/ /\ argc = 0
       /\ target = "none"
       /\ entry = "parseDirectory" /\ dirKind = "invalid"
       /\ n = 0 /\ kind = [f \in 1..0 |-> "good"]
    \/ /\ argc = 1
       /\ target \in {"missing", "other"}
       /\ entry = "parseDirectory" /\ dirKind = "invalid"
       /\ n = 0 /\ kind = [f \in 1..0 |-> "good"]
    \/ /\ argc = 1
       /\ target = "file"
       /\ n = 1 /\ kind \in [1..1 -> Kinds \ {"missing"}]
       /\ IF variant = "perFile"
            THEN entry = "parseDirectory" /\ dirKind = "invalid"
            ELSE entry = "parseTypeScriptFile" /\ dirKind = "ok"
    \/ /\ argc = 1
       /\ target = "dir"
       /\ entry = "parseDirectory" /\ dirKind \in {"ok", "readFails"}
       /\ n \in 0..MaxFiles /\ kind \in OneFaulty(n)

Init ==
    /\ variant \in Variants
    /\ rootForm \in RootForms
    /\ \/ caller = "module" /\ argc = 1 /\ pc = "start" /\ ModuleEnv
       \/ caller = "main" /\ pc = "main" /\ MainEnv
    /\ files = <<>>
    /\ i = 0
    /\ task = [f \in 1..n |-> "idle"]
    /\ val = [f \in 1..n |-> NoValue]
    /\ results = EmptyMap
    /\ writeCount = EmptyMap
    /\ chunks = <<>>
    /\ project = <<>>
    /\ parserCalls = {}
    /\ ret = Pending
    /\ stdout = Pending
    /\ stderr = ""
    /\ exitCode = -1
    /\ EnumOff
    /\ TreeOff

\* ------------------------------------------- perFile copy: parseDirectory
\* findFilesRecursively resolves with every eligible file
Enumerate ==
    /\ pc = "start" /\ entry = "parseDirectory" /\ variant = "perFile"
    /\ dirKind = "ok"
    /\ files' = [x \in 1..n |-> x]
    /\ i' = 0
    /\ pc' = "loop"
    /\ UNCHANGED <<mainVars, enumVars, treeVars>>
    /\ UNCHANGED <<variant, entry, rootForm, dirKind, n, kind, task, val,
                   results, writeCount, chunks, project, parserCalls, ret>>

\* readdir rejects (root missing, not a directory, or a nested directory
\* unreadable): the catch clause returns a fresh one-entry object
EnumerateFails ==
    /\ pc = "start" /\ entry = "parseDirectory" /\ variant = "perFile"
    /\ dirKind # "ok"
    /\ ret' = Mapping(Put(EmptyMap, DirPath,
                 [error |-> [msg  |-> "Failed to parse directory",
                             path |-> DirPath,
                             desc |-> IF dirKind = "invalid" THEN "ENOENT" ELSE "EACCES"]]))
    /\ pc' = "done"
    /\ UNCHANGED <<mainVars, enumVars, treeVars>>
    /\ UNCHANGED <<variant, entry, rootForm, dirKind, n, kind, files, i, task,
                   val, results, writeCount, chunks, project, parserCalls>>

\* one iteration of the for loop up to `await Promise.all`: slice the chunk,
\* start one task per file (each runs up to its `await access`), push
StartChunk ==
    /\ pc = "loop" /\ variant = "perFile"
    /\ i < Len(files)
    /\ task' = [f \in DOMAIN task |->
                   IF f \in chunk(files, i) THEN "access" ELSE task[f]]
    /\ chunks' = Append(chunks, Cardinality(chunk(files, i)))
    /\ pc' = "awaitAll"
    /\ UNCHANGED <<mainVars, enumVars, treeVars>>
    /\ UNCHANGED <<variant, entry, rootForm, dirKind, n, kind, files, i, val,
                   results, writeCount, project, parserCalls, ret>>

\* the existence check of task f settles and parseTypeScriptFile runs to
\* its return: its promise resolves with the node or the envelope
AccessSettles(f) ==
    /\ variant = "perFile"
    /\ task[f] = "access"
    /\ val' = [val EXCEPT ![f] = parseTypeScriptFile(f)]
    /\ parserCalls' = IF Exists(f) THEN parserCalls \cup {f} ELSE parserCalls
    /\ task' = [task EXCEPT ![f] = "parsed"]
    /\ UNCHANGED <<mainVars, enumVars, treeVars>>
    /\ UNCHANGED <<variant, entry, rootForm, dirKind, n, kind, pc, files, i,
                   results, writeCount, chunks, project, ret>>

\* mutation of keyOf: every task of a chunk assigns to the chunk's first file
keyOfShared(f) == FilePath(files[i + 1])

\* the key task f assigns to
keyOf(f) == FilePath(f)

\* results[file] = await parseTypeScriptFile(file): the task's continuation
WriteResult(f) ==
    /\ entry = "parseDirectory" /\ variant = "perFile"
    /\ task[f] = "parsed"
    /\ results' = Put(results, keyOf(f), val[f])
    /\ writeCount' = Bump(writeCount, keyOf(f))
    /\ task' = [task EXCEPT ![f] = "done"]
    /\ UNCHANGED <<mainVars, enumVars, treeVars>>
    /\ UNCHANGED <<variant, entry, rootForm, dirKind, n, kind, pc, files, i,
                   val, chunks, project, parserCalls, ret>>

\* mutation of allSettled: the promise array is not awaited
allSettledNoWait(fs, k) == TRUE

\* Promise.all(promises) resolves once every promise of the chunk has
allSettled(fs, k) == \A f \in chunk(fs, k) : task[f] = "done"

AwaitAll ==
    /\ pc = "awaitAll" /\ variant = "perFile"
    /\ allSettled(files, i)
    /\ i' = i + CONCURRENCY_LIMIT
    /\ pc' = "loop"
    /\ UNCHANGED <<mainVars, enumVars, treeVars>>
    /\ UNCHANGED <<variant, entry, rootForm, dirKind, n, kind, files, task,
                   val, results, writeCount, chunks, project, parserCalls, ret>>

\* the loop is over: return results
Return ==
    /\ pc = "loop" /\ variant = "perFile"
    /\ ~(i < Len(files))
    /\ ret' = Mapping(results)
    /\ pc' = "done"
    /\ UNCHANGED <<mainVars, enumVars, treeVars>>
    /\ UNCHANGED <<variant, entry, rootForm, dirKind, n, kind, files, i, task,
                   val, results, writeCount, chunks, project, parserCalls>>

\* --------------------------------------- perFile copy: parseTypeScriptFile
\* a direct call: the function runs up to `await fs.promises.access`
CallParseFile ==
    /\ pc = "start" /\ entry = "parseTypeScriptFile" /\ variant = "perFile"
    /\ task' = [task EXCEPT ![1] = "access"]
    /\ pc' = "awaitFile"
    /\ UNCHANGED <<mainVars, enumVars, treeVars>>
    /\ UNCHANGED <<variant, entry, rootForm, dirKind, n, kind, files, i, val,
                   results, writeCount, chunks, project, parserCalls, ret>>

\* the caller's await receives the value the promise resolved with
FileReturn ==
    /\ pc = "awaitFile" /\ entry = "parseTypeScriptFile" /\ variant = "perFile"
    /\ task[1] = "parsed"
    /\ ret' = Single(val[1])
    /\ task' = [task EXCEPT ![1] = "done"]
    /\ pc' = "done"
    /\ UNCHANGED <<mainVars, enumVars, treeVars>>
    /\ UNCHANGED <<variant, entry, rootForm, dirKind, n, kind, files, i, val,
                   results, writeCount, chunks, project, parserCalls>>

\* ---------------------------------------- shared copy: parseTypeScriptFile
\* the synchronous variant: existsSync, parse and return in one step
ParseFileSync ==
    /\ pc = "start" /\ entry = "parseTypeScriptFile" /\ variant = "shared"
    /\ ret' = Single(parseTypeScriptFile(1))
    /\ parserCalls' = IF Exists(1) THEN parserCalls \cup {1} ELSE parserCalls
    /\ task' = [task EXCEPT ![1] = "done"]
    /\ pc' = "done"
    /\ UNCHANGED <<mainVars, enumVars, treeVars>>
    /\ UNCHANGED <<variant, entry, rootForm, dirKind, n, kind, files, i, val,
                   results, writeCount, chunks, project>>

\* -------------------------------------------- shared copy: parseDirectory
\* what the shared copy returns for a path that is not an existing directory
dirNotFound == Single([error |-> [msg |-> "Directory not found", path |-> DirPath]])

\* !existsSync(dirPath) || !statSync(dirPath).isDirectory()
DirNotFound ==
    /\ pc = "start" /\ entry = "parseDirectory" /\ variant = "shared"
    /\ dirKind = "invalid"
    /\ ret' = dirNotFound
    /\ pc' = "done"
    /\ UNCHANGED <<mainVars, enumVars, treeVars>>
    /\ UNCHANGED <<variant, entry, rootForm, dirKind, n, kind, files, i, task,
                   val, results, writeCount, chunks, project, parserCalls>>

\* findFilesRecursively of the shared copy: a readdir failure is logged and
\* swallowed, so the files below the failing directory are left out
EnumerateShared ==
    /\ pc = "start" /\ entry = "parseDirectory" /\ variant = "shared"
    /\ dirKind # "invalid"
    /\ \E k \in 0..n :
          /\ dirKind = "ok" => k = n
          /\ files' = [x \in 1..k |-> x]
    /\ i' = 0
    /\ pc' = "addLoop"
    /\ UNCHANGED <<mainVars, enumVars, treeVars>>
    /\ UNCHANGED <<variant, entry, rootForm, dirKind, n, kind, task, val,
                   results, writeCount, chunks, project, parserCalls, ret>>

\* envelope written when project.addSourceFileAtPath(file) raises
addFailed(f) ==
    [error |-> [msg |-> "Failed to add file to project", desc |-> FailureOf(kind[f])]]

\* one iteration of `for (const file of files)`
AddFile ==
    /\ pc = "addLoop" /\ variant = "shared"
    /\ i < Len(files)
    /\ LET f == files[i + 1] IN
          /\ parserCalls' = parserCalls \cup {f}
          /\ task' = [task EXCEPT ![f] = IF AddThrows(f) THEN "done" ELSE "added"]
          /\ IF AddThrows(f)
               THEN /\ results' = Put(results, FilePath(f), addFailed(f))
                    /\ writeCount' = Bump(writeCount, FilePath(f))
                    /\ UNCHANGED project
               ELSE /\ project' = Append(project, f)
                    /\ UNCHANGED <<results, writeCount>>
    /\ i' = i + 1
    /\ UNCHANGED <<mainVars, enumVars, treeVars>>
    /\ UNCHANGED <<variant, entry, rootForm, dirKind, n, kind, pc, files, val,
                   chunks, ret>>

\* the first loop is over, the second starts
AddDone ==
    /\ pc = "addLoop" /\ variant = "shared"
    /\ ~(i < Len(files))
    /\ i' = 0
    /\ pc' = "parseLoop"
    /\ UNCHANGED <<mainVars, enumVars, treeVars>>
    /\ UNCHANGED <<variant, entry, rootForm, dirKind, n, kind, files, task, val,
                   results, writeCount, chunks, project, parserCalls, ret>>

\* value written for a source file of the project
sharedResult(f) ==
    IF TreeThrows(f)
      THEN [error |-> [msg |-> "Failed to parse file", desc |-> FailureOf(kind[f])]]
      ELSE createNodeFromSourceFile(f)

\* one iteration of `for (const sourceFile of project.getSourceFiles())`
ParseSourceFile ==
    /\ pc = "parseLoop" /\ variant = "shared"
    /\ i < Len(project)
    /\ LET f == project[i + 1] IN
          /\ results' = Put(results, getFilePath(f), sharedResult(f))
          /\ writeCount' = Bump(writeCount, getFilePath(f))
          /\ task' = [task EXCEPT ![f] = "done"]
    /\ i' = i + 1
    /\ UNCHANGED <<mainVars, enumVars, treeVars>>
    /\ UNCHANGED <<variant, entry, rootForm, dirKind, n, kind, pc, files, val,
                   chunks, project, parserCalls, ret>>

ReturnShared ==
    /\ pc = "parseLoop" /\ variant = "shared"
    /\ ~(i < Len(project))
    /\ ret' = Mapping(results)
    /\ pc' = "done"
    /\ UNCHANGED <<mainVars, enumVars, treeVars>>
    /\ UNCHANGED <<variant, entry, rootForm, dirKind, n, kind, files, i, task,
                   val, results, writeCount, chunks, project, parserCalls>>

\* ------------------------------------------------------------------- main
\* mutation of exitCodeFor: the process always ends with status 0
exitCodeAlwaysZero(outcome) == 0

\* exit status: 0 when the report was printed, process.exit(1) otherwise
exitCodeFor(outcome) == IF outcome = "printed" THEN 0 ELSE 1

\* args.length === 0: usage on standard error, process.exit(1)
MainUsage ==
    /\ pc = "main" /\ argc = 0
    /\ stderr' = "usage"
    /\ exitCode' = exitCodeFor("usage")
    /\ pc' = "exited"
    /\ UNCHANGED <<driverRest, enumVars, treeVars, caller, argc, target, stdout>>

\* main of the per-file copy: parseDirectory(args[0]) whatever the path is
MainCallsParseDirectory ==
    /\ pc = "main" /\ argc = 1 /\ variant = "perFile"
    /\ pc' = "start"
    /\ UNCHANGED <<driverRest, mainVars, enumVars, treeVars>>

\* main of the shared copy: fs.statSync(targetPath) raises for a missing
\* path, and a path that is neither file nor directory is refused; both
\* print to standard error and process.exit(1)
MainRejects ==
    /\ pc = "main" /\ argc = 1 /\ variant = "shared"
    /\ target \in {"missing", "other"}
    /\ stderr' = IF target = "missing" THEN "Error: ENOENT"
                                        ELSE "Error: is not a file or directory"
    /\ exitCode' = exitCodeFor("rejected")
    /\ pc' = "exited"
    /\ UNCHANGED <<driverRest, enumVars, treeVars, caller, argc, target, stdout>>

\* main of the shared copy: stats.isFile() / stats.isDirectory()
MainDispatches ==
    /\ pc = "main" /\ argc = 1 /\ variant = "shared"
    /\ target \in {"file", "dir"}
    /\ pc' = "start"
    /\ UNCHANGED <<driverRest, mainVars, enumVars, treeVars>>

\* console.log(JSON.stringify(result, null, 2)), then main ends
MainPrints ==
    /\ pc = "done" /\ caller = "main"
    /\ stdout' = ret
    /\ exitCode' = exitCodeFor("printed")
    /\ pc' = "exited"
    /\ UNCHANGED <<driverRest, enumVars, treeVars, caller, argc, target, stderr>>

\* ------------------------------------------------------------------- Next
Next ==
    \/ Enumerate
    \/ EnumerateFails
    \/ StartChunk
    \/ \E f \in FileIds : f \in DOMAIN task /\ AccessSettles(f)
    \/ \E f \in FileIds : f \in DOMAIN task /\ WriteResult(f)
    \/ AwaitAll
    \/ Return
    \/ CallParseFile
    \/ FileReturn
    \/ ParseFileSync
    \/ DirNotFound
    \/ EnumerateShared
    \/ AddFile
    \/ AddDone
    \/ ParseSourceFile
    \/ ReturnShared
    \/ MainUsage
    \/ MainCallsParseDirectory
    \/ MainRejects
    \/ MainDispatches
    \/ MainPrints

Spec == Init /\ [][Next]_vars

\* every pending callback is eventually run by the event loop, and the
\* parser capability returns or raises in finite time
FairSpec == Spec /\ WF_vars(Next)

\* ------------------------------------------------------------- properties
IsEnvelope(v) == DOMAIN v = {"error"}
IsNode(v) == "nodeType" \in DOMAIN v /\ "error" \notin DOMAIN v

Enumerated == {files[x] : x \in 1..Len(files)}

CeilDiv(a, b) == (a + b - 1) \div b

\* a parseDirectory call of the per-file copy returned for a readable directory
PerFileDirDone ==
    pc = "done" /\ entry = "parseDirectory" /\ variant = "perFile" /\ dirKind = "ok"

\* C1: in the per-file copy of parseDirectory, the number of files whose
\* pipeline has started and has not resolved never exceeds the concurrency
\* limit, whatever the number of enumerated files
InFlightBounded ==
    variant = "perFile" => Cardinality(InFlight) <= CONCURRENCY_LIMIT

InFlightBoundedWitness ==
    /\ variant = "perFile" /\ entry = "parseDirectory"
    /\ Len(files) > CONCURRENCY_LIMIT
    /\ Cardinality(InFlight) = CONCURRENCY_LIMIT

\* C2: when parseDirectory returns for a directory that was enumerated
\* successfully, the key set of the mapping is exactly the set of the
\* enumerated file paths
KeysAreEnumeratedPaths ==
    (pc = "done" /\ entry = "parseDirectory" /\ dirKind = "ok") =>
        /\ ret.shape = "mapping"
        /\ DOMAIN ret.value = {FilePath(f) : f \in Enumerated}

\* C3: in a run of the per-file copy where some files fail and the others
\* are valid, every file has its entry (the batch is not aborted), a failing
\* file maps to an error envelope and a valid file maps to the tree it has
\* on its own, whatever the other files are
FailureIsolation ==
    PerFileDirDone =>
        /\ ret.shape = "mapping"
        /\ \A f \in 1..n :
              /\ FilePath(f) \in DOMAIN ret.value
              /\ kind[f] = "good" =>
                    ret.value[FilePath(f)] = createNodeFromSourceFile(f)
              /\ kind[f] # "good" => IsEnvelope(ret.value[FilePath(f)])

FailureIsolationWitness ==
    /\ PerFileDirDone
    /\ \E f, g \in 1..n : kind[f] = "good" /\ kind[g] # "good"
    /\ \E f \in 1..n : kind[f] = "good" /\ IsNode(ret.value[FilePath(f)])

\* C4: n files are processed in ceil(n / 5) waves, all of size 5 except
\* possibly the last, and every file has its key in the final mapping,
\* for every completion order inside a wave (12 files: waves 5, 5, 2)
WavesOfFive ==
    /\ (variant = "perFile" /\ entry = "parseDirectory") =>
          \A k \in 1..Len(chunks) :
              \/ chunks[k] = CONCURRENCY_LIMIT
              \/ /\ k = CeilDiv(n, CONCURRENCY_LIMIT)
                 /\ chunks[k] = n - CONCURRENCY_LIMIT * (k - 1)
    /\ PerFileDirDone =>
          /\ Len(chunks) = CeilDiv(n, CONCURRENCY_LIMIT)
          /\ ret.shape = "mapping"
          /\ \A f \in 1..n : FilePath(f) \in DOMAIN ret.value

WavesOfFiveWitness ==
    /\ PerFileDirDone
    /\ n = 12
    /\ chunks = <<5, 5, 2>>
    /\ Cardinality(DOMAIN ret.value) = 12

\* C5: every key of the result mapping is assigned exactly once, by the
\* task of the file the key names, with the value that task produced
WrittenOnce ==
    /\ DOMAIN writeCount = DOMAIN results
    /\ \A k \in DOMAIN results :
          /\ writeCount[k] = 1
          /\ k.file \in Enumerated
          /\ task[k.file] = "done"
          /\ variant = "perFile" => results[k] = val[k.file]

WrittenOnceWitness ==
    /\ pc = "done" /\ entry = "parseDirectory"
    /\ Cardinality(DOMAIN results) > CONCURRENCY_LIMIT
    /\ \A k \in DOMAIN results : writeCount[k] = 1

\* C6: the call eventually returns, and a mapping is returned only when
\* every enumerated file has resolved (none in flight, none not started)
ReturnsWhenAllResolved ==
    /\ (pc = "start") ~> (pc = "done")
    /\ [](pc = "done" /\ entry = "parseDirectory" =>
             /\ ret.shape # "none"
             /\ \A f \in Enumerated : task[f] = "done")

ReturnsWhenAllResolvedWitness ==
    /\ PerFileDirDone
    /\ Len(files) > CONCURRENCY_LIMIT
    /\ \A f \in Enumerated : task[f] = "done"

\* a direct call of parseTypeScriptFile returned
FileCallDone == pc = "done" /\ entry = "parseTypeScriptFile"

\* C7 as stated: a path that does not exist or is not readable gives the
\* envelope "File not found: <path>" and the parser is never invoked
NotFoundWhenMissingOrUnreadable ==
    (FileCallDone /\ kind[1] \in {"missing", "unreadable"}) =>
        /\ ret = [shape |-> "value",
                  value |-> [error |-> [msg |-> "File not found",
                                        path |-> [root |-> rootForm, file |-> 1]]]]
        /\ 1 \notin parserCalls

\* C7 as amended: a path that does not exist gives the envelope
\* "File not found: <path>" and the parser is never invoked; a path that
\* exists and cannot be read passes the existence check, the parser is
\* invoked and its failure comes back as "Failed to parse <path>: ..."
NotFoundWhenMissing ==
    /\ (FileCallDone /\ kind[1] = "missing") =>
          /\ ret = [shape |-> "value",
                    value |-> [error |-> [msg |-> "File not found",
                                          path |-> [root |-> rootForm, file |-> 1]]]]
          /\ 1 \notin parserCalls
    /\ (FileCallDone /\ kind[1] = "unreadable") =>
          /\ ret = [shape |-> "value",
                    value |-> [error |-> [msg  |-> "Failed to parse",
                                          path |-> [root |-> rootForm, file |-> 1],
                                          desc |-> "EACCES"]]]
          /\ 1 \in parserCalls
    /\ \A f \in 1..n :
          (variant = "perFile" /\ task[f] \in {"parsed", "done"} /\ kind[f] = "missing") =>
              /\ val[f] = [error |-> [msg |-> "File not found",
                                      path |-> [root |-> rootForm, file |-> f]]]
              /\ f \notin parserCalls

NotFoundWhenMissingWitness ==
    /\ FileCallDone /\ kind[1] = "missing"
    /\ ret.shape = "value"
    /\ ret.value.error.msg = "File not found"
    /\ parserCalls = {}

\* an envelope names file f and carries the description of the failure
NamesPathAndFailure(v, f) ==
    /\ "path" \in DOMAIN v.error
    /\ v.error.path.file = f
    /\ v.error.msg # "File not found" => "desc" \in DOMAIN v.error

\* C8: a failure of the parser or of tree construction becomes an error
\* envelope whose message has both the file path and the description of
\* the failure, and every failing file ends with such an envelope
FailureBecomesEnvelopeWithPath ==
    /\ \A k \in DOMAIN results :
          /\ kind[k.file] # "good" => IsEnvelope(results[k])
          /\ IsEnvelope(results[k]) => NamesPathAndFailure(results[k], k.file)
    /\ \A f \in 1..n :
          (val[f] # NoValue /\ IsEnvelope(val[f])) => NamesPathAndFailure(val[f], f)
    /\ (FileCallDone /\ IsEnvelope(ret.value)) => NamesPathAndFailure(ret.value, 1)

\* a value is a node or an error envelope and not both
OneShape(v) ==
    /\ IsNode(v) \/ IsEnvelope(v)
    /\ ~("error" \in DOMAIN v /\ "nodeType" \in DOMAIN v)

DirFailureIsTopLevelEnvelope ==
    (pc = "done" /\ entry = "parseDirectory" /\ dirKind = "invalid") =>
        /\ ret.shape = "value"
        /\ IsEnvelope(ret.value)

\* a command-line run with one argument naming a path that does not exist
MissingPathRunEnded ==
    caller = "main" /\ pc = "exited" /\ argc = 1 /\ target = "missing"

BatchOf(x) == (x - 1) \div CONCURRENCY_LIMIT

\* C20: no file of a later batch has started while a file of an earlier
\* batch is unresolved; inside a batch files resolve in any order
BatchesSequential ==
    (variant = "perFile" /\ entry = "parseDirectory") =>
        \A x, y \in 1..Len(files) :
            (BatchOf(x) < BatchOf(y) /\ task[files[y]] # "idle") =>
                task[files[x]] = "done"

BatchesSequentialWitness ==
    /\ variant = "perFile" /\ entry = "parseDirectory"
    /\ \E x, y, z \in 1..Len(files) :
          /\ BatchOf(x) = 0 /\ BatchOf(y) = 1 /\ BatchOf(z) = 1
          /\ y < z
          /\ task[files[x]] = "done"
          /\ task[files[y]] = "access"
          /\ task[files[z]] = "done"

\* ====================================================================
\* Directory enumeration in detail: findFilesRecursively / traverse of both
\* copies, inside parseDirectory.  The per-file processing that follows the
\* enumeration is summarised in one step here (it is modelled step by step
\* in Spec).
\* ====================================================================

\* Directories to exclude from traversal (per-file copy)
EXCLUDED_DIRS == {"node_modules", ".git", "dist", "build", ".venv", "venv",
                  "coverage", ".next", ".cache", "__pycache__"}

\* directory names the shared copy does not descend into
SharedSkippedDirs == {"node_modules", ".git", "dist", ".venv"}

\* extensions: string[] = ['.ts', '.tsx']
Extensions == {".ts", ".tsx"}

\* what an entry of a directory can be: a directory, a regular file, or
\* something that is neither (a symbolic link, a socket)
EntryKinds ==
    {[type |-> "dir", name |-> "src"],
     [type |-> "dir", name |-> "node_modules"],
     [type |-> "dir", name |-> "build"],
     [type |-> "file", name |-> "a.ts"],
     [type |-> "file", name |-> "b.tsx"],
     [type |-> "file", name |-> "c.js"],
     [type |-> "file", name |-> ".ts"],
     [type |-> "other", name |-> "lnk.ts"]}

\* entry.name.endsWith(ext), for the names above
EndsWith(nm, ext) ==
    \/ nm \in {"a.ts", "lnk.ts", ".ts"} /\ ext = ".ts"
    \/ nm = "b.tsx" /\ ext = ".tsx"
    \/ nm = "c.js" /\ ext = ".js"

\* path.extname(entry.name), for the names above (a name that is nothing
\* but a leading dot and letters has no extension)
extname(nm) ==
    CASE nm \in {"a.ts", "lnk.ts"} -> ".ts"
      [] nm = "b.tsx" -> ".tsx"
      [] nm = "c.js" -> ".js"
      [] OTHER -> ""

\* the exclusion set of the copy that runs
ExclusionSet == IF variant = "perFile" THEN EXCLUDED_DIRS ELSE SharedSkippedDirs

\* mutation of skipsDir: the exclusion test is dropped
skipsDirNever(nm) == FALSE

\* EXCLUDED_DIRS.has(entry.name) / the chain of entry.name !== '...'
skipsDir(nm) == nm \in ExclusionSet

\* extensions.some(ext => entry.name.endsWith(ext)) /
\* extensions.includes(path.extname(entry.name))
matchesExtension(nm) ==
    IF variant = "perFile"
      THEN \E ext \in Extensions : EndsWith(nm, ext)
      ELSE extname(nm) \in Extensions

\* the members of a set of numbers in ascending order
Ascending(S) ==
    [k \in 1..Cardinality(S) |-> CHOOSE e \in S : Cardinality({x \in S : x < e}) = k - 1]

\* the entries readdir yields for directory d (0 is the root)
Children(d) == Ascending({e \in 1..Len(fsEntries) : fsEntries[e].parent = d})

\* readdir(d) resolves
Readable(d) == (d = 0 => fsRoot = "dir") /\ d # fsUnreadable

\* well-formed trees: a parent is the root or an earlier directory, and the
\* names inside one directory differ
TreeOk(es) ==
    \A e \in 1..Len(es) :
        /\ es[e].parent = 0 \/ (es[e].parent < e /\ es[es[e].parent].type = "dir")
        /\ \A g \in 1..Len(es) :
              (g # e /\ es[g].parent = es[e].parent) => es[g].name # es[e].name

EntryRecords ==
    {[parent |-> p, type |-> k.type, name |-> k.name] :
        <<p, k>> \in (0..(MaxEntries - 1)) \X EntryKinds}

InitEnum ==
    /\ variant \in Variants
    /\ entry = "parseDirectory"
    /\ rootForm = "abs"
    /\ dirKind = "ok" /\ n = 0 /\ kind = [f \in 1..0 |-> "good"]
    /\ pc = "off"
    /\ files = <<>> /\ i = 0
    /\ task = [f \in 1..0 |-> "idle"] /\ val = [f \in 1..0 |-> NoValue]
    /\ results = EmptyMap /\ writeCount = EmptyMap
    /\ chunks = <<>> /\ project = <<>> /\ parserCalls = {} /\ ret = Pending
    /\ caller = "module" /\ argc = 1 /\ target = "dir"
    /\ stdout = Pending /\ stderr = "" /\ exitCode = -1
    /\ TreeOff
    /\ epc = "start"
    /\ \/ /\ fsRoot = "missing"
          /\ fsEntries = <<>>
          /\ fsUnreadable = -1
       \/ /\ fsRoot = "dir"
          /\ \E m \in 0..MaxEntries :
                /\ fsEntries \in {es \in [1..m -> EntryRecords] : TreeOk(es)}
                /\ fsUnreadable \in {-1, 0} \cup {e \in 1..m : fsEntries[e].type = "dir"}
    /\ estack = <<>>
    /\ efiles = <<>>
    /\ readdirCalls = <<>>
    /\ eparsed = {}
    /\ elog = <<>>
    /\ eret = Pending

Frame(d, st, nx) == [dir |-> d, state |-> st, next |-> nx]

Top == estack[Len(estack)]

Pop(st) == SubSeq(st, 1, Len(st) - 1)

\* shared copy: !fs.existsSync(dirPath) || !fs.statSync(dirPath).isDirectory()
EnumRootInvalid ==
    /\ epc = "start" /\ variant = "shared"
    /\ fsRoot # "dir"
    /\ eret' = dirNotFound
    /\ epc' = "returned"
    /\ UNCHANGED <<driverVars, mainVars, treeVars>>
    /\ UNCHANGED <<fsRoot, fsEntries, fsUnreadable, estack, efiles, readdirCalls,
                   eparsed, elog>>

\* findFilesRecursively(dirPath): traverse(dirPath) runs up to its
\* `await fs.promises.readdir(currentPath)`.  The per-file copy gets here
\* without looking at the path first.
EnumCall ==
    /\ epc = "start"
    /\ variant = "shared" => fsRoot = "dir"
    /\ estack' = <<Frame(0, "reading", 1)>>
    /\ readdirCalls' = <<0>>
    /\ epc' = "walk"
    /\ UNCHANGED <<driverVars, mainVars, treeVars>>
    /\ UNCHANGED <<fsRoot, fsEntries, fsUnreadable, efiles, eparsed, elog, eret>>

\* readdir resolves with the entries of the directory
ReadDirResolves ==
    /\ epc = "walk" /\ Top.state = "reading"
    /\ Readable(Top.dir)
    /\ estack' = [estack EXCEPT ![Len(estack)].state = "iterating"]
    /\ UNCHANGED <<driverVars, mainVars, treeVars>>
    /\ UNCHANGED <<epc, fsRoot, fsEntries, fsUnreadable, efiles, readdirCalls,
                   eparsed, elog, eret>>

\* mutation of enumerationFailed: the files enumerated so far get entries too
enumerationFailedKeepsFiles(desc) ==
    Mapping([k \in {DirPath} \cup {FilePath(efiles[x]) : x \in 1..Len(efiles)} |->
                IF k = DirPath
                  THEN [error |-> [msg |-> "Failed to parse directory", path |-> DirPath,
                                   desc |-> desc]]
                  ELSE [nodeType |-> "SourceFile"]])

\* the catch of the per-file parseDirectory:
\* return { [dirPath]: { error: `Failed to parse directory ${dirPath}: ...` } }
enumerationFailed(desc) ==
    Mapping(Put(EmptyMap, DirPath,
                [error |-> [msg |-> "Failed to parse directory", path |-> DirPath,
                            desc |-> desc]]))

\* readdir rejects.  Per-file copy: the rejection passes through every
\* traverse() and findFilesRecursively into the catch of parseDirectory.
\* Shared copy: traverse() catches it, logs, and returns to its caller.
ReadDirRejects ==
    /\ epc = "walk" /\ Top.state = "reading"
    /\ ~Readable(Top.dir)
    /\ IF variant = "perFile"
         THEN /\ estack' = <<>>
              /\ eret' = enumerationFailed(IF fsRoot = "dir" THEN "EACCES" ELSE "ENOENT")
              /\ epc' = "returned"
              /\ UNCHANGED elog
         ELSE /\ estack' = Pop(estack)
              /\ elog' = Append(elog, Top.dir)
              /\ epc' = IF Len(estack) = 1 THEN "enumerated" ELSE "walk"
              /\ UNCHANGED eret
    /\ UNCHANGED <<driverVars, mainVars, treeVars>>
    /\ UNCHANGED <<fsRoot, fsEntries, fsUnreadable, efiles, readdirCalls, eparsed>>

\* one iteration of `for (const entry of entries)`
VisitEntry ==
    /\ epc = "walk" /\ Top.state = "iterating"
    /\ Top.next <= Len(Children(Top.dir))
    /\ LET e == Children(Top.dir)[Top.next]
           advanced == [estack EXCEPT ![Len(estack)].next = Top.next + 1]
       IN  IF fsEntries[e].type = "dir"
             THEN IF skipsDir(fsEntries[e].name)
                    THEN /\ estack' = advanced
                         /\ UNCHANGED <<efiles, readdirCalls>>
                    ELSE /\ estack' = Append(advanced, Frame(e, "reading", 1))
                         /\ readdirCalls' = Append(readdirCalls, e)
                         /\ UNCHANGED efiles
             ELSE IF fsEntries[e].type = "file" /\ matchesExtension(fsEntries[e].name)
                    THEN /\ efiles' = Append(efiles, e)
                         /\ estack' = advanced
                         /\ UNCHANGED readdirCalls
                    ELSE /\ estack' = advanced
                         /\ UNCHANGED <<efiles, readdirCalls>>
    /\ UNCHANGED <<driverVars, mainVars, treeVars>>
    /\ UNCHANGED <<epc, fsRoot, fsEntries, fsUnreadable, eparsed, elog, eret>>

\* the for loop of a traverse() is over: it returns to its caller, the
\* outermost one to findFilesRecursively, which returns `files`
TraverseReturns ==
    /\ epc = "walk" /\ Top.state = "iterating"
    /\ Top.next > Len(Children(Top.dir))
    /\ estack' = Pop(estack)
    /\ epc' = IF Len(estack) = 1 THEN "enumerated" ELSE "walk"
    /\ UNCHANGED <<driverVars, mainVars, treeVars>>
    /\ UNCHANGED <<fsRoot, fsEntries, fsUnreadable, efiles, readdirCalls, eparsed,
                   elog, eret>>

\* the key parseDirectory stores the result of enumerated file e under
enumKey(e) == IF variant = "perFile" THEN FilePath(e) ELSE getFilePath(e)

\* the rest of parseDirectory, summarised: every enumerated file goes
\* through the per-file pipeline and the mapping is returned
ProcessFiles ==
    /\ epc = "enumerated"
    /\ eparsed' = {efiles[x] : x \in 1..Len(efiles)}
    /\ eret' = Mapping([k \in {enumKey(efiles[x]) : x \in 1..Len(efiles)} |->
                           [nodeType |-> "SourceFile"]])
    /\ epc' = "returned"
    /\ UNCHANGED <<driverVars, mainVars, treeVars>>
    /\ UNCHANGED <<fsRoot, fsEntries, fsUnreadable, estack, efiles, readdirCalls, elog>>

NextEnum ==
    \/ EnumRootInvalid
    \/ EnumCall
    \/ ReadDirResolves
    \/ ReadDirRejects
    \/ VisitEntry
    \/ TraverseReturns
    \/ ProcessFiles

SpecEnum == InitEnum /\ [][NextEnum]_vars

\* ------------------------------------------------ enumeration properties

RECURSIVE AncestorDirs(_)
\* the directories between the root and entry e (the root itself left out)
AncestorDirs(e) ==
    IF fsEntries[e].parent = 0 THEN {}
    ELSE {fsEntries[e].parent} \cup AncestorDirs(fsEntries[e].parent)

BelowExcluded(e) == \E d \in AncestorDirs(e) : fsEntries[d].name \in ExclusionSet

Occurrences(sq, x) == Cardinality({k \in 1..Len(sq) : sq[k] = x})

\* C11: when the root path given to parseDirectory is invalid the call
\* short-circuits before any traversal begins: no directory read is issued,
\* no file is enumerated and no file is parsed.
InvalidRootShortCircuits ==
    fsRoot # "dir" =>
        /\ readdirCalls = <<>>
        /\ efiles = <<>>
        /\ eparsed = {}

\* C12: enumeration never descends into a directory named in the exclusion
\* set (no directory read is issued for one, no enumerated file lies below
\* one), and once the enumeration has completed every regular file with a
\* matching extension that is not below an excluded directory, and whose
\* directories could all be read, has been enumerated exactly once.
ExcludedDirsNeverEntered ==
    /\ \A k \in 1..Len(readdirCalls) :
          readdirCalls[k] # 0 =>
              /\ fsEntries[readdirCalls[k]].name \notin ExclusionSet
              /\ ~BelowExcluded(readdirCalls[k])
    /\ \A k \in 1..Len(efiles) :
          /\ ~BelowExcluded(efiles[k])
          /\ Occurrences(efiles, efiles[k]) = 1
    /\ epc = "enumerated" =>
          \A e \in 1..Len(fsEntries) :
              ( /\ fsEntries[e].type = "file"
                /\ extname(fsEntries[e].name) \in Extensions
                /\ ~BelowExcluded(e)
                /\ \A d \in AncestorDirs(e) \cup {0} : Readable(d) )
              => Occurrences(efiles, e) = 1

\* an excluded directory with a matching file in it was passed over while a
\* matching file beside it was enumerated
ExcludedDirsNeverEnteredWitness ==
    /\ epc = "enumerated"
    /\ Len(efiles) >= 1
    /\ \E e \in 1..Len(fsEntries) :
          /\ fsEntries[e].type = "file"
          /\ extname(fsEntries[e].name) \in Extensions
          /\ BelowExcluded(e)

\* ====================================================================
\* The tree walk: createNodeFromSourceFile, processNode and the node
\* normalizer, run on the syntax tree the parser built for one file.
\* ====================================================================

\* what the accessors of a syntax node answer; "" stands for an absent
\* clause, type node, name or text
NoInitializer == [kind |-> "", text |-> ""]

Plain ==
    [kind |-> "", name |-> "", text |-> "",
     extends |-> "", implements |-> <<>>, extendsList |-> <<>>,
     parameters |-> <<>>, returnTypeNode |-> "", returnType |-> "void",
     typeNode |-> "", initializer |-> NoInitializer, modifiers |-> {},
     description |-> <<>>]

\* class Foo {}  /  class Foo extends Base implements I {}
ClassDecls ==
    <<[Plain EXCEPT !.kind = "ClassDeclaration", !.name = "Foo"],
      [Plain EXCEPT !.kind = "ClassDeclaration", !.name = "Foo",
                    !.extends = "Base", !.implements = <<"I">>]>>

\* function f() {}  /  function f(a: number = 1): number {...}  /
\* function f() { return 1 }   (no annotation, the checker infers number)
FunctionDecls ==
    <<[Plain EXCEPT !.kind = "FunctionDeclaration", !.name = "f"],
      [Plain EXCEPT !.kind = "FunctionDeclaration", !.name = "f",
                    !.parameters = <<[name |-> "a", typeNode |-> "number", initializer |-> "1"]>>,
                    !.returnTypeNode = "number", !.returnType = "number"],
      [Plain EXCEPT !.kind = "FunctionDeclaration", !.name = "f", !.returnType = "number"]>>

\* m(p) {}  inside a class
MethodDecls ==
    <<[Plain EXCEPT !.kind = "MethodDeclaration", !.name = "m",
                    !.parameters = <<[name |-> "p", typeNode |-> "", initializer |-> ""]>>]>>

\* constructor() {}  inside class Foo
ConstructorDecls ==
    <<[Plain EXCEPT !.kind = "Constructor", !.returnType = "Foo"]>>

\* interface I {}  /  interface I extends A {}
InterfaceDecls ==
    <<[Plain EXCEPT !.kind = "InterfaceDeclaration", !.name = "I"],
      [Plain EXCEPT !.kind = "InterfaceDeclaration", !.name = "I", !.extendsList = <<"A">>]>>

\* the declarations of  let v  /  const v: number = 3  /  const v = f()  /
\* const v = true
VariableDecls ==
    <<[Plain EXCEPT !.kind = "VariableDeclaration", !.name = "v"],
      [Plain EXCEPT !.kind = "VariableDeclaration", !.name = "v", !.typeNode = "number",
                    !.initializer = [kind |-> "NumericLiteral", text |-> "3"]],
      [Plain EXCEPT !.kind = "VariableDeclaration", !.name = "v",
                    !.initializer = [kind |-> "CallExpression", text |-> "f()"]],
      [Plain EXCEPT !.kind = "VariableDeclaration", !.name = "v",
                    !.initializer = [kind |-> "TrueKeyword", text |-> "true"]]>>

\* private x: number = 3;  /  protected static x;  /  public readonly x;  /  x;
PropertyDecls ==
    <<[Plain EXCEPT !.kind = "PropertyDeclaration", !.name = "x", !.typeNode = "number",
                    !.modifiers = {"private"},
                    !.initializer = [kind |-> "NumericLiteral", text |-> "3"]],
      [Plain EXCEPT !.kind = "PropertyDeclaration", !.name = "x",
                    !.modifiers = {"protected", "static"}],
      [Plain EXCEPT !.kind = "PropertyDeclaration", !.name = "x",
                    !.modifiers = {"public", "readonly"}],
      [Plain EXCEPT !.kind = "PropertyDeclaration", !.name = "x"]>>

\* a documentation block: its description is a text, kept as the sequence of
\* its pieces so that joining and trimming can be computed
JSDocs ==
    <<[Plain EXCEPT !.kind = "JSDoc", !.description = <<"doc">>],
      [Plain EXCEPT !.kind = "JSDoc", !.description = <<" ">>],
      [Plain EXCEPT !.kind = "JSDoc", !.description = <<"more">>]>>

\* node.getText() of the kinds that carry nothing else
TextOf(k) ==
    CASE k = "Identifier" -> "x"
      [] k = "NumericLiteral" -> "3"
      [] k = "SemicolonToken" -> ";"
      [] k = "CommaToken" -> ","
      [] OTHER -> ""

\* the forms of a kind that the trees are built from
FormsOf(k) ==
    CASE k = "ClassDeclaration" -> ClassDecls
      [] k = "FunctionDeclaration" -> FunctionDecls
      [] k = "MethodDeclaration" -> MethodDecls
      [] k = "Constructor" -> ConstructorDecls
      [] k = "InterfaceDeclaration" -> InterfaceDecls
      [] k = "VariableDeclaration" -> VariableDecls
      [] k = "PropertyDeclaration" -> PropertyDecls
      [] k = "JSDoc" -> JSDocs
      [] OTHER -> <<[Plain EXCEPT !.kind = k, !.text = TextOf(k)]>>

\* a node of a tree names its parent, its kind and which form of the kind
\* it is; Syn gives what its accessors answer
Syn(sn) == FormsOf(sn.kind)[sn.form]

\* which kinds getStatements() / getChildren() can give below which kind
\* (keyword and brace tokens and the SyntaxList wrappers, which the walk
\* treats like every other kept kind, are left out of the trees)
ChildKinds(k) ==
    CASE k = "SourceFile" ->
            {"ClassDeclaration", "FunctionDeclaration", "InterfaceDeclaration",
             "VariableStatement", "EmptyStatement"}
      [] k = "ClassDeclaration" ->
            {"JSDoc", "Identifier", "PropertyDeclaration", "MethodDeclaration", "Constructor"}
      [] k \in {"FunctionDeclaration", "MethodDeclaration", "InterfaceDeclaration"} ->
            {"JSDoc", "Identifier"}
      [] k = "Constructor" -> {"JSDoc"}
      [] k = "VariableStatement" ->
            {"JSDoc", "VariableDeclaration", "CommaToken", "SemicolonToken"}
      [] k = "VariableDeclaration" -> {"Identifier", "NumericLiteral"}
      [] k = "PropertyDeclaration" -> {"JSDoc", "Identifier", "SemicolonToken"}
      [] k = "EmptyStatement" -> {"SemicolonToken"}
      [] OTHER -> {}

\* the kind of node d of tree t; node 0 is the source file
KindIn(t, d) == IF d = 0 THEN "SourceFile" ELSE t[d].kind

RECURSIVE OnRightmostPath(_, _, _)
\* d is node x or one of its ancestors
OnRightmostPath(t, d, x) ==
    \/ d = x
    \/ x # 0 /\ OnRightmostPath(t, d, t[x].parent)

\* a node of kind k can follow the nodes of t, as a child of p, in textual
\* (pre-)order
Fits(t, p, k) ==
    /\ OnRightmostPath(t, p, Len(t))
    /\ k \in ChildKinds(KindIn(t, p))
    /\ k = "JSDoc" => \A x \in 1..Len(t) : t[x].parent = p => t[x].kind = "JSDoc"

NodeAt(p, k, f) == [parent |-> p, kind |-> k, form |-> f]

AllKinds ==
    UNION {ChildKinds(k) : k \in {"SourceFile", "ClassDeclaration", "FunctionDeclaration",
                                  "VariableStatement", "VariableDeclaration",
                                  "PropertyDeclaration", "EmptyStatement"}}

\* the trees keep to one node that is not in the first form of its kind
OneSpecialForm(t) == Cardinality({x \in 1..Len(t) : t[x].form # 1}) <= 1

\* --------------------------------------------------------- line numbers
\* The text of a tree: every statement and every class member starts a line
\* of its own, a documentation block takes the line before the line (or the
\* next block) of the declaration it belongs to, everything else stays on
\* the line it is reached on, and a closing brace stays on the last line.

LineStarters ==
    {"ClassDeclaration", "FunctionDeclaration", "InterfaceDeclaration",
     "VariableStatement", "EmptyStatement", "PropertyDeclaration",
     "MethodDeclaration", "Constructor"}

MaxOf(S) == CHOOSE x \in S : \A y \in S : y <= x

\* node.getStartLineNumber(): the line of the first token of the node, the
\* documentation blocks in front of a declaration not counted as part of it;
\* a documentation block starts where its comment starts
getStartLineNumber(t, d) ==
    LET lineOfFirstToken(x) ==
            1 + Cardinality({y \in 2..x : t[y].kind \in LineStarters})
              + Cardinality({j \in 1..Len(t) :
                                t[j].kind = "JSDoc" /\ (j < x \/ t[j].parent = x)})
    IN  IF t[d].kind = "JSDoc"
          THEN lineOfFirstToken(t[d].parent)
                 - Cardinality({j \in d..Len(t) :
                                   t[j].kind = "JSDoc" /\ t[j].parent = t[d].parent})
          ELSE lineOfFirstToken(d)

\* node.getEndLineNumber() / sourceFile.getEndLineNumber()
getEndLineNumber(t, d) ==
    IF d # 0 /\ t[d].kind = "JSDoc" THEN getStartLineNumber(t, d)
    ELSE MaxOf({1} \cup {getStartLineNumber(t, x) :
                    x \in {y \in 1..Len(t) : t[y].kind # "JSDoc" /\ OnRightmostPath(t, d, y)}})

\* ------------------------------------------------------- the normalizer

\* mutation of getChildren: the children come last to first
getChildrenReversed(t, d) ==
    LET c == Ascending({x \in 1..Len(t) : t[x].parent = d})
    IN  [k \in 1..Len(c) |-> c[Len(c) + 1 - k]]

\* sourceFile.getStatements() / node.getChildren(), in source order
getChildren(t, d) == Ascending({x \in 1..Len(t) : t[x].parent = d})

skipKinds == {"EndOfFileToken", "SemicolonToken", "CommaToken"}

\* mutation of shouldSkipNode: commas are kept
shouldSkipNodeKeepsCommas(sn) == sn.kind \in {"EndOfFileToken", "SemicolonToken"}

shouldSkipNode(sn) == sn.kind \in skipKinds

\* ts_morph.Node.isNameable: the kinds whose name is optional
isNameable(sn) ==
    sn.kind \in {"ClassDeclaration", "ClassExpression", "FunctionDeclaration",
                 "FunctionExpression"}

\* "" is `undefined`
getNodeName(sn) ==
    IF isNameable(sn) THEN sn.name
    ELSE IF sn.kind = "Identifier" THEN sn.text
    ELSE ""

isJSDocable(sn) ==
    sn.kind \in {"ClassDeclaration", "FunctionDeclaration", "InterfaceDeclaration",
                 "VariableStatement", "PropertyDeclaration", "MethodDeclaration",
                 "Constructor"}

\* node.getJsDocs()
getJsDocs(t, d) == Ascending({x \in 1..Len(t) : t[x].parent = d /\ t[x].kind = "JSDoc"})

RECURSIVE Join(_)
\* .join('\n') of texts
Join(ts) ==
    IF Len(ts) = 0 THEN <<>>
    ELSE IF Len(ts) = 1 THEN ts[1]
    ELSE ts[1] \o <<"\n">> \o Join(Tail(ts))

Whitespace == {" ", "\n"}

RECURSIVE Trim(_)
\* .trim()
Trim(tx) ==
    IF Len(tx) = 0 THEN tx
    ELSE IF tx[1] \in Whitespace THEN Trim(Tail(tx))
    ELSE IF tx[Len(tx)] \in Whitespace THEN Trim(SubSeq(tx, 1, Len(tx) - 1))
    ELSE tx

\* mutation of getNodeDocComment: the joined text is not trimmed
getNodeDocCommentUntrimmed(t, d) ==
    LET jsDocs == getJsDocs(t, d)
    IN  IF isJSDocable(t[d]) /\ Len(jsDocs) > 0
          THEN Join([k \in 1..Len(jsDocs) |-> Syn(t[jsDocs[k]]).description])
          ELSE <<>>

\* <<>> is `undefined` or the empty string: both are falsy
getNodeDocComment(t, d) ==
    LET jsDocs == getJsDocs(t, d)
    IN  IF isJSDocable(t[d]) /\ Len(jsDocs) > 0
          THEN Trim(Join([k \in 1..Len(jsDocs) |-> Syn(t[jsDocs[k]]).description]))
          ELSE <<>>

\* m with key k set to v when cond holds
PutIf(cond, m, k, v) == IF cond THEN Put(m, k, v) ELSE m

paramInfo(param) ==
    PutIf(param.initializer # "",
          PutIf(param.typeNode # "",
                [k \in {"name"} |-> param.name],
                "type", param.typeNode),
          "default", param.initializer)

LiteralKinds == {"StringLiteral", "NumericLiteral", "TrueKeyword", "FalseKeyword"}

classAttributes(sn, a) ==
    IF sn.kind = "ClassDeclaration"
      THEN PutIf(Len(sn.implements) > 0,
                 PutIf(sn.extends # "", a, "extends", sn.extends),
                 "implements", sn.implements)
      ELSE a

functionAttributes(sn, a) ==
    IF sn.kind \in {"FunctionDeclaration", "MethodDeclaration", "Constructor"}
      THEN PutIf(sn.returnType # "void",
                 PutIf(Len(sn.parameters) > 0, a, "parameters",
                       [k \in 1..Len(sn.parameters) |-> paramInfo(sn.parameters[k])]),
                 "returnType", sn.returnType)
      ELSE a

interfaceAttributes(sn, a) ==
    IF sn.kind = "InterfaceDeclaration"
      THEN PutIf(Len(sn.extendsList) > 0, a, "extends", sn.extendsList)
      ELSE a

\* mutation of variableAttributes: the text of every initializer is reported
variableAttributesAnyValue(sn, a) ==
    IF sn.kind = "VariableDeclaration"
      THEN PutIf(sn.initializer # NoInitializer,
                 PutIf(sn.initializer # NoInitializer,
                       PutIf(sn.typeNode # "", a, "type", sn.typeNode),
                       "hasInitializer", TRUE),
                 "initializerValue", sn.initializer.text)
      ELSE a

variableAttributes(sn, a) ==
    IF sn.kind = "VariableDeclaration"
      THEN PutIf(sn.initializer.kind \in LiteralKinds,
                 PutIf(sn.initializer # NoInitializer,
                       PutIf(sn.typeNode # "", a, "type", sn.typeNode),
                       "hasInitializer", TRUE),
                 "initializerValue", sn.initializer.text)
      ELSE a

visibilityOf(sn) ==
    IF "private" \in sn.modifiers THEN "private"
    ELSE IF "protected" \in sn.modifiers THEN "protected"
    ELSE IF "public" \in sn.modifiers THEN "public"
    ELSE ""

\* mutation of propertyAttributes: the initializer is reported as for variables
propertyAttributesWithInitializer(sn, a) ==
    IF sn.kind = "PropertyDeclaration"
      THEN PutIf(sn.initializer # NoInitializer,
                 PutIf(visibilityOf(sn) # "",
                       PutIf(sn.typeNode # "", a, "type", sn.typeNode),
                       "visibility", visibilityOf(sn)),
                 "hasInitializer", TRUE)
      ELSE a

propertyAttributes(sn, a) ==
    IF sn.kind = "PropertyDeclaration"
      THEN PutIf("readonly" \in sn.modifiers,
                 PutIf("static" \in sn.modifiers,
                       PutIf(visibilityOf(sn) # "",
                             PutIf(sn.typeNode # "", a, "type", sn.typeNode),
                             "visibility", visibilityOf(sn)),
                       "static", TRUE),
                 "readonly", TRUE)
      ELSE a

getNodeAttributes(sn) ==
    propertyAttributes(sn,
        variableAttributes(sn,
            interfaceAttributes(sn,
                functionAttributes(sn,
                    classAttributes(sn, EmptyMap)))))

\* ------------------------------------------------------------- the walk

\* an ASTNode is a JavaScript object: a function from the names of the
\* fields it has to their values

\* mutation of initialChildren: the list of the previous call is reused
initialChildrenReused(prev) == prev

\* `children: []` of the fileNode literal: a fresh empty list in every call
initialChildren(prev) == <<>>

\* mutation of fileNode: the literal has no children field
fileNodeWithoutChildren(t, prev) ==
    [nodeType |-> "SourceFile", name |-> "file.ts", startLine |-> 1,
     endLine |-> getEndLineNumber(t, 0)]

\* the fileNode literal of createNodeFromSourceFile
fileNode(t, prev) ==
    [nodeType |-> "SourceFile", name |-> "file.ts", startLine |-> 1,
     endLine |-> getEndLineNumber(t, 0), children |-> initialChildren(prev)]

\* mutation of addNodeSpecificDetails: attributes is assigned unconditionally
addNodeSpecificDetailsAlways(t, d, astNode) ==
    Put(PutIf(getNodeDocComment(t, d) # <<>>,
              PutIf(getNodeName(Syn(t[d])) # "", astNode, "name", getNodeName(Syn(t[d]))),
              "docComment", getNodeDocComment(t, d)),
        "attributes", getNodeAttributes(Syn(t[d])))

addNodeSpecificDetails(t, d, astNode) ==
    PutIf(DOMAIN getNodeAttributes(Syn(t[d])) # {},
          PutIf(getNodeDocComment(t, d) # <<>>,
                PutIf(getNodeName(Syn(t[d])) # "", astNode, "name", getNodeName(Syn(t[d]))),
                "docComment", getNodeDocComment(t, d)),
          "attributes", getNodeAttributes(Syn(t[d])))

\* mutation of newAstNode: the literal has `children: []`
newAstNodeWithChildren(t, d) ==
    addNodeSpecificDetails(t, d,
        [nodeType |-> t[d].kind,
         startLine |-> getStartLineNumber(t, d),
         endLine |-> getEndLineNumber(t, d),
         children |-> <<>>])

\* the astNode processNode builds for syntax node d, before it is attached
newAstNode(t, d) ==
    addNodeSpecificDetails(t, d,
        [nodeType |-> t[d].kind,
         startLine |-> getStartLineNumber(t, d),
         endLine |-> getEndLineNumber(t, d)])

\* mutation of pushChild: the node is put in front of the list
pushChildInFront(parentASTNode, astNode) ==
    Put(parentASTNode, "children",
        <<astNode>> \o (IF "children" \in DOMAIN parentASTNode THEN parentASTNode.children ELSE <<>>))

\* parentASTNode.children.push(astNode), after `if (!parentASTNode.children)
\* parentASTNode.children = []`
pushChild(parentASTNode, astNode) ==
    Put(parentASTNode, "children",
        Append(IF "children" \in DOMAIN parentASTNode THEN parentASTNode.children ELSE <<>>,
               astNode))

RECURSIVE TreeOf(_, _)
\* the tree below object x of heap h, as a value (what JSON.stringify shows)
TreeOf(h, x) ==
    IF "children" \in DOMAIN h[x]
      THEN [f \in DOMAIN h[x] |->
              IF f = "children"
                THEN [k \in 1..Len(h[x].children) |-> TreeOf(h, h[x].children[k])]
                ELSE h[x][f]]
      ELSE h[x]

TopFrame == tstack[Len(tstack)]

\* the child the running loop is at
CurrentChild == getChildren(tsrc, TopFrame.src)[TopFrame.next]

InLoop ==
    /\ tpc = "walk"
    /\ TopFrame.state = "loop"
    /\ TopFrame.next <= Len(getChildren(tsrc, TopFrame.src))

InitTree ==
    /\ variant = "perFile"
    /\ entry = "parseTypeScriptFile"
    /\ rootForm = "abs"
    /\ dirKind = "ok" /\ n = 0 /\ kind = [f \in 1..0 |-> "good"]
    /\ pc = "off"
    /\ files = <<>> /\ i = 0
    /\ task = [f \in 1..0 |-> "idle"] /\ val = [f \in 1..0 |-> NoValue]
    /\ results = EmptyMap /\ writeCount = EmptyMap
    /\ chunks = <<>> /\ project = <<>> /\ parserCalls = {} /\ ret = Pending
    /\ caller = "module" /\ argc = 1 /\ target = "file"
    /\ stdout = Pending /\ stderr = "" /\ exitCode = -1
    /\ EnumOff
    /\ tpc = "parsing"
    /\ tsrc = <<>>
    /\ heap = <<>>
    /\ tstack = <<>>
    /\ tlog = <<>>
    /\ run = 1
    /\ out1 = <<>>

\* project.addSourceFileAtPath(filePath): the parser reads the next node of
\* the file, in textual order
ParserAddsNode ==
    /\ tpc = "parsing"
    /\ Len(tsrc) < MaxNodes
    /\ \E p \in 0..Len(tsrc), k \in AllKinds :
          /\ Fits(tsrc, p, k)
          /\ \E f \in 1..Len(FormsOf(k)) :
                /\ tsrc' = Append(tsrc, NodeAt(p, k, f))
                /\ OneSpecialForm(tsrc')
    /\ UNCHANGED <<driverVars, mainVars, enumVars>>
    /\ UNCHANGED <<tpc, heap, tstack, tlog, run, out1>>

\* createNodeFromSourceFile up to its for loop; in the first call the parser
\* has just reached the end of the file, in the second call it has parsed
\* the unchanged file into the same tree
CreateFileNode ==
    /\ tpc \in {"parsing", "start"}
    /\ heap' = <<fileNode(tsrc, IF run = 2 THEN out1[1].children ELSE <<>>)>>
    /\ tstack' = <<[src |-> 0, ast |-> 1, next |-> 1, state |-> "loop"]>>
    /\ tpc' = "walk"
    /\ UNCHANGED <<driverVars, mainVars, enumVars>>
    /\ UNCHANGED <<tsrc, tlog, run, out1>>

\* processNode on a node of a skipped kind: it returns at once
ProcessNodeSkips ==
    /\ InLoop
    /\ shouldSkipNode(tsrc[CurrentChild])
    /\ tstack' = [tstack EXCEPT ![Len(tstack)].next = @ + 1]
    /\ tlog' = Append(tlog, [ev |-> "visit", node |-> CurrentChild])
    /\ UNCHANGED <<driverVars, mainVars, enumVars>>
    /\ UNCHANGED <<tpc, tsrc, heap, run, out1>>

\* processNode up to and including addNodeSpecificDetails
ProcessNode ==
    /\ InLoop
    /\ ~shouldSkipNode(tsrc[CurrentChild])
    /\ heap' = Append(heap, newAstNode(tsrc, CurrentChild))
    /\ tstack' = Append([tstack EXCEPT ![Len(tstack)].next = @ + 1],
                        [src |-> CurrentChild, ast |-> Len(heap) + 1, next |-> 1,
                         state |-> "built"])
    /\ tlog' = Append(tlog, [ev |-> "visit", node |-> CurrentChild])
    /\ UNCHANGED <<driverVars, mainVars, enumVars>>
    /\ UNCHANGED <<tpc, tsrc, run, out1>>

\* processNode: the node is added to its parent, then processNodeChildren
\* is entered
AttachToParent ==
    /\ tpc = "walk"
    /\ TopFrame.state = "built"
    /\ LET parentAst == tstack[Len(tstack) - 1].ast
       IN  heap' = [heap EXCEPT ![parentAst] = pushChild(@, TopFrame.ast)]
    /\ tstack' = [tstack EXCEPT ![Len(tstack)].state = "loop"]
    /\ tlog' = Append(tlog, [ev |-> "attach", node |-> TopFrame.src])
    /\ UNCHANGED <<driverVars, mainVars, enumVars>>
    /\ UNCHANGED <<tpc, tsrc, run, out1>>

\* the loop of processNodeChildren (or of createNodeFromSourceFile) is over:
\* processNode returns to its caller, createNodeFromSourceFile returns fileNode
LoopEnds ==
    /\ tpc = "walk"
    /\ TopFrame.state = "loop"
    /\ TopFrame.next > Len(getChildren(tsrc, TopFrame.src))
    /\ tstack' = SubSeq(tstack, 1, Len(tstack) - 1)
    /\ tpc' = IF Len(tstack) = 1 THEN "returned" ELSE "walk"
    /\ UNCHANGED <<driverVars, mainVars, enumVars>>
    /\ UNCHANGED <<tsrc, heap, tlog, run, out1>>

\* the caller keeps the tree and parses the same file a second time
ParseAgain ==
    /\ tpc = "returned" /\ run = 1
    /\ out1' = heap
    /\ run' = 2
    /\ heap' = <<>>
    /\ tlog' = <<>>
    /\ tpc' = "start"
    /\ UNCHANGED <<driverVars, mainVars, enumVars>>
    /\ UNCHANGED <<tsrc, tstack>>

NextTree ==
    \/ ParserAddsNode
    \/ CreateFileNode
    \/ ProcessNodeSkips
    \/ ProcessNode
    \/ AttachToParent
    \/ LoopEnds
    \/ ParseAgain

SpecTree == InitTree /\ [][NextTree]_vars

\* ------------------------------------------------------- walk properties

Returned == tpc = "returned"

ParentChildPairs ==
    {pc2 \in (1..Len(heap)) \X (1..Len(heap)) :
        /\ "children" \in DOMAIN heap[pc2[1]]
        /\ \E k \in 1..Len(heap[pc2[1]].children) : heap[pc2[1]].children[k] = pc2[2]}

\* C15: the line span of every non-root node lies within the span of its
\* parent.
SpansNested ==
    \A pr \in ParentChildPairs :
        /\ heap[pr[1]].startLine <= heap[pr[2]].startLine
        /\ heap[pr[2]].endLine <= heap[pr[1]].endLine

\* the attribute keys of ASTNode object x
AttributeKeys(x) ==
    IF "attributes" \in DOMAIN heap[x] THEN DOMAIN heap[x].attributes ELSE {}

\* the attribute vocabulary of a kind
Vocabulary(k) ==
    CASE k = "ClassDeclaration" -> {"extends", "implements"}
      [] k \in {"FunctionDeclaration", "MethodDeclaration", "Constructor"} ->
            {"parameters", "returnType"}
      [] k = "InterfaceDeclaration" -> {"extends"}
      [] k = "VariableDeclaration" -> {"type", "hasInitializer", "initializerValue"}
      [] k = "PropertyDeclaration" -> {"type", "visibility", "static", "readonly"}
      [] OTHER -> {}

\* C16: no output node carries an attribute key outside the vocabulary of
\* its kind.
AttributesInVocabulary ==
    \A x \in 1..Len(heap) : AttributeKeys(x) \subseteq Vocabulary(heap[x].nodeType)

\* a returned tree in which a property node carries two keys and another
\* node carries attributes of its own kind
AttributesInVocabularyWitness ==
    /\ Returned
    /\ \E x \in 1..Len(heap) :
          /\ heap[x].nodeType = "PropertyDeclaration"
          /\ Cardinality(AttributeKeys(x)) >= 2
    /\ \E x \in 1..Len(heap) :
          /\ heap[x].nodeType # "PropertyDeclaration"
          /\ AttributeKeys(x) # {}

\* the syntax tree of `class Foo { private x: number = 3; }`
PrivateXFile ==
    <<NodeAt(0, "ClassDeclaration", 1), NodeAt(1, "PropertyDeclaration", 1),
      NodeAt(2, "Identifier", 1)>>

PropertyNodes == {x \in 1..Len(heap) : heap[x].nodeType = "PropertyDeclaration"}

KeptVisits ==
    SelectSeq(tlog, LAMBDA e : e.ev = "visit" /\ tsrc[e.node].kind \notin skipKinds)

\* the syntax node ASTNode object x was made for
SrcOf(x) == IF x = 1 THEN 0 ELSE KeptVisits[x - 1].node

\* the list of children of object x, empty when the field is absent
ChildrenOf(x) == IF "children" \in DOMAIN heap[x] THEN heap[x].children ELSE <<>>

PositionOf(e) ==
    IF \E p \in 1..Len(tlog) : tlog[p] = e
      THEN CHOOSE p \in 1..Len(tlog) : tlog[p] = e
      ELSE 0

\* a is a proper ancestor of d, or an earlier child of the parent of d
BeforeInPreOrder(a, d) ==
    /\ a # 0 /\ a # d
    /\ \/ OnRightmostPath(tsrc, a, d)
       \/ tsrc[a].parent = tsrc[d].parent /\ a < d

\* C19: the children of every output node are in the order of the source
\* children they were made for, the nodes are visited in textual (pre-)order,
\* and when a node is visited every kept ancestor and every kept earlier
\* sibling of it has already been attached to its parent.
PreOrderWalk ==
    /\ \A x \in 1..Len(heap) :
          \A j, k \in 1..Len(ChildrenOf(x)) :
              j < k => SrcOf(ChildrenOf(x)[j]) < SrcOf(ChildrenOf(x)[k])
    /\ \A p, q \in 1..Len(tlog) :
          (p < q /\ tlog[p].ev = "visit" /\ tlog[q].ev = "visit") =>
              tlog[p].node < tlog[q].node
    /\ \A q \in 1..Len(tlog) :
          tlog[q].ev = "visit" =>
              \A a \in 1..Len(tsrc) :
                  (BeforeInPreOrder(a, tlog[q].node) /\ tsrc[a].kind \notin skipKinds) =>
                      /\ PositionOf([ev |-> "attach", node |-> a]) > 0
                      /\ PositionOf([ev |-> "attach", node |-> a]) < q
    /\ Returned =>
          {tlog[p].node : p \in {q \in 1..Len(tlog) : tlog[q].ev = "visit"}} = 1..Len(tsrc)

\* a returned walk of a tree with a node that has a child and a later sibling
PreOrderWalkWitness ==
    /\ Returned
    /\ \E a, b, c \in 1..Len(tsrc) :
          /\ tsrc[b].parent = a
          /\ tsrc[c].parent = tsrc[a].parent /\ a < c
          /\ tsrc[c].kind \notin skipKinds
          /\ PositionOf([ev |-> "attach", node |-> c]) > 0

\* ====================================================================
\* Further properties of the driver, the walk and the enumeration
\* ====================================================================

\* C21: in the per-file copy of parseDirectory the mapping has no entry for
\* a file that is in flight; a file's key is in the mapping only once the
\* file has resolved, and then with the complete value its
\* parseTypeScriptFile call returned, a node or an error envelope.
NoEntryWhileInFlight ==
    (variant = "perFile" /\ entry = "parseDirectory") =>
        \A f \in DOMAIN task :
            /\ f \in InFlight => FilePath(f) \notin DOMAIN results
            /\ FilePath(f) \in DOMAIN results =>
                  /\ task[f] = "done"
                  /\ results[FilePath(f)] = parseTypeScriptFile(f)
                  /\ IsNode(results[FilePath(f)]) \/ IsEnvelope(results[FilePath(f)])

\* one file of a chunk has its entry while another file of the chunk is
\* still in flight
NoEntryWhileInFlightWitness ==
    /\ variant = "perFile" /\ entry = "parseDirectory"
    /\ \E f, g \in DOMAIN task :
          /\ f \in InFlight
          /\ task[g] = "done" /\ FilePath(g) \in DOMAIN results

\* ASTNode object x has been pushed onto the children of its parent
Attached(x) == \E y \in 1..Len(heap) : <<y, x>> \in ParentChildPairs

\* a step of one traversal (not the step that starts the second call)
WalkStep == tpc' \in {"walk", "returned"} /\ Len(heap') >= Len(heap)

\* sq is a prefix of sq2
IsPrefix(sq, sq2) == Len(sq) <= Len(sq2) /\ SubSeq(sq2, 1, Len(sq)) = sq

\* C23 as stated: once a node is attached to its parent none of its fields,
\* its own children included, changes for the rest of the traversal.
AttachedNeverChanges ==
    [][WalkStep => \A x \in 1..Len(heap) : Attached(x) => heap'[x] = heap[x]]_vars

\* C23: once a node is attached to its parent, nodeType, startLine, endLine,
\* name, docComment and attributes never change for the rest of the
\* traversal; its children field is the one that does: it is created when
\* the first kept child is attached and only grows at its end.
AttachedChangesOnlyChildren ==
    [][WalkStep =>
         \A x \in 1..Len(heap) :
             Attached(x) =>
                 /\ DOMAIN heap[x] \subseteq DOMAIN heap'[x]
                 /\ DOMAIN heap'[x] \subseteq DOMAIN heap[x] \cup {"children"}
                 /\ \A f \in DOMAIN heap[x] \ {"children"} : heap'[x][f] = heap[x][f]
                 /\ "children" \in DOMAIN heap[x] =>
                       IsPrefix(heap[x].children, heap'[x].children)]_vars

\* an attached node that got its children after it was attached
AttachedChangesOnlyChildrenWitness ==
    /\ Returned
    /\ \E x \in 1..Len(heap) :
          /\ Attached(x)
          /\ Len(ChildrenOf(x)) >= 2

\* what getNodeAttributes gave for the syntax node of ASTNode object x
ExtractedAttributes(x) == getNodeAttributes(Syn(tsrc[SrcOf(x)]))

\* C24: a node has the attributes field if and only if attribute extraction
\* for its syntax node gave at least one key, and the field then holds what
\* was extracted: no node carries an empty attributes mapping.
NoEmptyAttributes ==
    /\ Len(heap) >= 1 => "attributes" \notin DOMAIN heap[1]
    /\ \A x \in 2..Len(heap) :
          /\ "attributes" \in DOMAIN heap[x] <=> DOMAIN ExtractedAttributes(x) # {}
          /\ "attributes" \in DOMAIN heap[x] =>
                /\ heap[x].attributes = ExtractedAttributes(x)
                /\ DOMAIN heap[x].attributes # {}

\* a returned tree with a class node for which nothing was extracted next to
\* a node that carries attributes
NoEmptyAttributesWitness ==
    /\ Returned
    /\ \E x, y \in 2..Len(heap) :
          /\ heap[x].nodeType = "ClassDeclaration"
          /\ "attributes" \notin DOMAIN heap[x]
          /\ "attributes" \in DOMAIN heap[y]

\* the source children of the syntax node of object x that are kept
KeptSourceChildren(x) ==
    {c \in 1..Len(tsrc) : tsrc[c].parent = SrcOf(x) /\ tsrc[c].kind \notin skipKinds}

\* C25: no non-root node carries an empty children list, and when the walk
\* has returned a non-root node has the children field if and only if at
\* least one of its source children was kept.
NoEmptyChildren ==
    /\ \A x \in 2..Len(heap) : "children" \in DOMAIN heap[x] => heap[x].children # <<>>
    /\ Returned =>
          \A x \in 2..Len(heap) :
              "children" \in DOMAIN heap[x] <=> KeptSourceChildren(x) # {}

\* a returned tree with a node all of whose source children were skipped
\* and a non-root node that has children
NoEmptyChildrenWitness ==
    /\ Returned
    /\ \E x, y \in 2..Len(heap) :
          /\ "children" \notin DOMAIN heap[x]
          /\ \E c \in 1..Len(tsrc) : tsrc[c].parent = SrcOf(x)
          /\ "children" \in DOMAIN heap[y]

\* C26: the root node of a parsed file has startLine 1 and always carries
\* the children field, which on return is the empty list exactly when no
\* top-level statement was kept.
RootHasChildrenField ==
    Len(heap) >= 1 =>
        /\ heap[1].nodeType = "SourceFile"
        /\ heap[1].startLine = 1
        /\ "children" \in DOMAIN heap[1]
        /\ Returned => (heap[1].children = <<>> <=> KeptSourceChildren(1) = {})

\* the walk of a file without statements has returned
RootHasChildrenFieldWitness ==
    /\ Returned
    /\ tsrc = <<>>
    /\ heap[1].children = <<>>

\* the documentation blocks of the syntax node of object x, first to last
DocBlocks(x) ==
    Ascending({j \in 1..Len(tsrc) : tsrc[j].kind = "JSDoc" /\ tsrc[j].parent = SrcOf(x)})

\* their descriptions joined with newlines and trimmed
JoinedDescription(x) ==
    Trim(Join([k \in 1..Len(DocBlocks(x)) |-> Syn(tsrc[DocBlocks(x)[k]]).description]))

\* C27: docComment is the newline-joined, trimmed concatenation of the
\* descriptions of all documentation blocks of the node, in order; the
\* field is absent when the node has no documentation block or when the
\* trimmed text is empty.
DocCommentJoinedAndTrimmed ==
    /\ Len(heap) >= 1 => "docComment" \notin DOMAIN heap[1]
    /\ \A x \in 2..Len(heap) :
          /\ "docComment" \in DOMAIN heap[x] <=>
                (Len(DocBlocks(x)) > 0 /\ JoinedDescription(x) # <<>>)
          /\ "docComment" \in DOMAIN heap[x] => heap[x].docComment = JoinedDescription(x)

\* a returned tree in which the descriptions of two blocks were joined in
\* order
DocCommentJoinedAndTrimmedWitness ==
    /\ Returned
    /\ \E x \in 2..Len(heap) :
          /\ Len(DocBlocks(x)) = 2
          /\ "docComment" \in DOMAIN heap[x]
          /\ heap[x].docComment = <<"doc", "\n", "more">>

FunctionKinds == {"FunctionDeclaration", "MethodDeclaration", "Constructor"}

\* C28: a function, method or constructor node has the returnType attribute
\* if and only if its declaration has an explicit return type annotation
\* other than void.
ReturnTypeOnlyWhenAnnotated ==
    \A x \in 2..Len(heap) :
        heap[x].nodeType \in FunctionKinds =>
            ("returnType" \in AttributeKeys(x)
                <=> Syn(tsrc[SrcOf(x)]).returnTypeNode \notin {"", "void"})

\* the initializer of the variable declaration object x was made for
InitializerOf(x) == Syn(tsrc[SrcOf(x)]).initializer

\* C29: a variable declaration node has hasInitializer, with value true,
\* exactly when the declaration has an initializer; it has initializerValue
\* only when the initializer is a string, numeric or boolean literal, and
\* then it holds the literal's text and hasInitializer is there too.
InitializerAttributes ==
    \A x \in 2..Len(heap) :
        heap[x].nodeType = "VariableDeclaration" =>
            /\ "hasInitializer" \in AttributeKeys(x) <=> InitializerOf(x) # NoInitializer
            /\ "hasInitializer" \in AttributeKeys(x) => heap[x].attributes.hasInitializer = TRUE
            /\ "initializerValue" \in AttributeKeys(x) =>
                  /\ InitializerOf(x).kind \in
                        {"StringLiteral", "NumericLiteral", "TrueKeyword", "FalseKeyword"}
                  /\ heap[x].attributes.initializerValue = InitializerOf(x).text
                  /\ "hasInitializer" \in AttributeKeys(x)

\* a returned tree with a variable initialized by a call: hasInitializer
\* without initializerValue
InitializerAttributesWitness ==
    /\ Returned
    /\ \E x \in 2..Len(heap) :
          /\ heap[x].nodeType = "VariableDeclaration"
          /\ InitializerOf(x).kind = "CallExpression"
          /\ AttributeKeys(x) = {"hasInitializer"}

\* directory d (0 is the root) is one the traversal issues a read for
ReadAttempted(d) ==
    \/ d = 0
    \/ /\ fsEntries[d].type = "dir"
       /\ fsEntries[d].name \notin ExclusionSet
       /\ ~BelowExcluded(d)
       /\ \A a \in AncestorDirs(d) \cup {0} : Readable(a)

\* the directories whose read fails during the enumeration
FailingDirs == {d \in 0..Len(fsEntries) : ReadAttempted(d) /\ ~Readable(d)}

\* C30: in the per-file copy, when the read of the root or of a nested,
\* non-excluded directory fails, parseDirectory returns a mapping with
\* exactly one entry, keyed by the root path and holding an error envelope;
\* no file is parsed and the files enumerated before the failure have no
\* entry.
ReadFailureGivesOneEntry ==
    (variant = "perFile" /\ epc = "returned" /\ FailingDirs # {}) =>
        /\ eret.shape = "mapping"
        /\ DOMAIN eret.value = {DirPath}
        /\ IsEnvelope(eret.value[DirPath])
        /\ eparsed = {}
        /\ \A x \in 1..Len(efiles) : FilePath(efiles[x]) \notin DOMAIN eret.value

\* the read of a nested directory failed after a file had been enumerated
ReadFailureGivesOneEntryWitness ==
    /\ variant = "perFile" /\ epc = "returned"
    /\ \E d \in FailingDirs : d # 0
    /\ efiles # <<>>

====
